---- MODULE Spec2Model ----
(***************************************************************************)
(* ResourceAccessRightsModel (nx_vms_client_desktop): the per-resource      *)
(* table of access rights of the subject being edited.  The model keeps    *)
(* the fields of ResourceAccessRightsModel::Private, the edited subject's  *)
(* own ResourceAccessMap held by the AccessSubjectEditingContext, and the  *)
(* access maps of the subject's parent groups.                             *)
(*                                                                         *)
(* Ids (QnUuid) and resource pointers are integers, NullId is the null     *)
(* uuid / null pointer.  AccessRights bitmasks are sets of rights: `|` is  *)
(* \cup, `& ~` is set difference, testFlag is membership, 0 is {}.         *)
(***************************************************************************)
EXTENDS Integers, Sequences, FiniteSets, TLC

VARIABLES
    context,              \* Private::context (QPointer): NullId or kContext
    accessRightList,      \* Private::accessRightList
    resource,             \* Private::resource: NullId or a resource id
    nodeType,             \* Private::nodeType
    info,                 \* Private::info
    ownResourceAccessMap, \* context->ownResourceAccessMap()
    groupAccessMaps,      \* own access maps of the other subjects
    currentSubjectId,     \* context->currentSubjectId()
    resourcePool,         \* ids of the resources in context->systemContext()->resourcePool()
    lastToggle,           \* history: the arguments of the toggle call that produced this
                          \* state and the access map and info it started from
    mergeCall,            \* merge_sorted_lists: the arguments of a call and its result
    jsonCall              \* ResolutionData: a value, its JSON text and the outcome of
                          \* deserializing the text

vars == <<context, accessRightList, resource, nodeType, info,
    ownResourceAccessMap, groupAccessMaps, currentSubjectId, resourcePool, lastToggle,
    mergeCall, jsonCall>>

----------------------------------------------------------------------------
(* Bounds *)

NumCameras == 3

----------------------------------------------------------------------------
(* Identifiers *)

NullId == 0
kContext == 1

kAllDevicesGroupId == 2
kAllVideoWallsGroupId == 3
kAllWebPagesGroupId == 4
kAllServersGroupId == 5

Cameras == {10 + i : i \in 1..NumCameras}
camA == 11
camB == 12
layoutL == 21
videoWallV == 31
Layouts == {layoutL}
VideoWalls == {videoWallV}
server1 == 51
Servers == {server1}
WebPages == {}
Resources == Cameras \cup Layouts \cup VideoWalls \cup Servers \cup WebPages
SpecialResourceGroups ==
    {kAllDevicesGroupId, kAllVideoWallsGroupId, kAllWebPagesGroupId, kAllServersGroupId}

\* Subjects: user u1 with direct parents g1 and g2; g1 has direct parent h1.
u1 == 41
g2 == 42
g1 == 43
h1 == 44
Subjects == {u1, g1, g2, h1}

\* AccessRight flags.
view == "view"
viewArchive == "viewArchive"
AccessRight == {view, viewArchive}

NodeTypes == {"spacer", "camerasAndDevices", "videoWalls", "integrations", "webPages",
    "servers", "layouts", "resource"}

----------------------------------------------------------------------------
(* Generic helpers *)

Min(S) == CHOOSE x \in S : \A y \in S : x <= y
Max(S) == CHOOSE x \in S : \A y \in S : y <= x

\* Iteration order of an unordered container (QSet, resource pool list).
RECURSIVE Enumerate(_)
Enumerate(S) == IF S = {} THEN <<>> ELSE <<Max(S)>> \o Enumerate(S \ {Max(S)})

Range(s) == {s[i] : i \in 1..Len(s)}

InsertAt(s, pos, x) == SubSeq(s, 1, pos - 1) \o <<x>> \o SubSeq(s, pos, Len(s))

\* Faulty variant: the insertion position is always the end.
upper_bound_AtEnd(s, x) == Len(s) + 1

\* std::upper_bound: position of the first element greater than x.
upper_bound(s, x) ==
    LET greater == {i \in 1..Len(s) : s[i] > x}
    IN IF greater = {} THEN Len(s) + 1 ELSE Min(greater)

\* std::sort of a sequence of ids.
RECURSIVE sort(_)
sort(s) ==
    IF s = <<>> THEN <<>>
    ELSE LET rest == sort(Tail(s))
         IN InsertAt(rest, upper_bound(rest, Head(s)), Head(s))

----------------------------------------------------------------------------
(* ResourceAccessMap (QHash<QnUuid, AccessRights>) *)

\* accessMap.value(id): the stored mask, or a default-constructed (empty) one.
Value(accessMap, id) == IF id \in DOMAIN accessMap THEN accessMap[id] ELSE {}

Emplace(accessMap, id, rights) ==
    [k \in DOMAIN accessMap \cup {id} |-> IF k = id THEN rights ELSE accessMap[k]]

Remove(accessMap, id) == [k \in DOMAIN accessMap \ {id} |-> accessMap[k]]

EmptyMap == [k \in {} |-> {}]

\* Faulty variant: an entry whose mask becomes zero is stored instead of removed.
modifyAccessRights_KeepsZeroEntry(accessMap, resourceOrGroupId, accessRightsMask, value) ==
    LET accessRights == Value(accessMap, resourceOrGroupId)
        newAccessRights == IF value
            THEN accessRights \cup accessRightsMask
            ELSE accessRights \ accessRightsMask
    IN IF newAccessRights = accessRights THEN accessMap
       ELSE Emplace(accessMap, resourceOrGroupId, newAccessRights)

modifyAccessRights(accessMap, resourceOrGroupId, accessRightsMask, value) ==
    LET accessRights == Value(accessMap, resourceOrGroupId)
        newAccessRights == IF value
            THEN accessRights \cup accessRightsMask
            ELSE accessRights \ accessRightsMask
    IN IF newAccessRights = accessRights THEN accessMap
       ELSE IF newAccessRights # {} THEN Emplace(accessMap, resourceOrGroupId, newAccessRights)
       ELSE Remove(accessMap, resourceOrGroupId)

\* The loops `for (itemId: getGroupContents(..)) modifyAccessRights(accessMap, itemId, ..)`.
RECURSIVE modifyEach(_, _, _, _)
modifyEach(accessMap, itemIds, mask, value) ==
    IF itemIds = <<>> THEN accessMap
    ELSE modifyEach(modifyAccessRights(accessMap, Head(itemIds), mask, value),
        Tail(itemIds), mask, value)

----------------------------------------------------------------------------
(* AccessSubjectEditingContext, SubjectHierarchy and the resource pool *)

\* SubjectHierarchy::directParents
directParents(subject) ==
    IF subject = u1 THEN {g1, g2}
    ELSE IF subject = g1 THEN {h1}
    ELSE {}

RECURSIVE recursiveParents(_, _)
recursiveParents(subjects, visited) ==
    LET next == (UNION {directParents(s) : s \in subjects}) \ visited
    IN IF next = {} THEN visited ELSE recursiveParents(next, visited \cup next)

\* SubjectHierarchy::isRecursiveMember(member, groups): member belongs, directly or through
\* its parents, to one of the groups.
isRecursiveMember(member, groups) == recursiveParents({member}, {}) \cap groups # {}

\* AccessSubjectEditingContext::specialResourceGroupFor
specialResourceGroupFor(res) ==
    IF res \in Cameras THEN kAllDevicesGroupId
    ELSE IF res \in VideoWalls THEN kAllVideoWallsGroupId
    ELSE IF res \in WebPages THEN kAllWebPagesGroupId
    ELSE IF res \in Servers THEN kAllServersGroupId
    ELSE NullId

\* AccessSubjectEditingContext::requiredAccessRights / dependentAccessRights
requiredAccessRights(accessRight) == IF accessRight = viewArchive THEN {view} ELSE {}
dependentAccessRights(accessRight) == IF accessRight = view THEN {viewArchive} ELSE {}

\* Resources shown on a layout or a video wall (the indirect provider index).
containedResources(container) ==
    IF container = layoutL THEN {camA, camB}
    ELSE IF container = videoWallV THEN {camA}
    ELSE {}

\* The own access map of a subject: the edited one for the current subject.
accessMapOf(subject, ownMap, groupMaps) ==
    IF subject = currentSubjectId THEN ownMap
    ELSE IF subject \in DOMAIN groupMaps THEN groupMaps[subject]
    ELSE EmptyMap

\* AccessSubjectEditingContext::hasOwnAccessRight
hasOwnAccessRight(ownMap, resourceOrGroupId, accessRight) ==
    accessRight \in Value(ownMap, resourceOrGroupId)

\* A subject's map grants the right on a resource directly or through its special group.
grantsAccess(accessMap, res, accessRight) ==
    \/ accessRight \in Value(accessMap, res)
    \/ /\ specialResourceGroupFor(res) # NullId
       /\ accessRight \in Value(accessMap, specialResourceGroupFor(res))

\* Providers through which one subject's own map gives access to the resource: the resource
\* itself, and every layout or video wall that shows it and is itself accessible.
providersOf(accessMap, res, accessRight) ==
    (IF grantsAccess(accessMap, res, accessRight) THEN {res} ELSE {})
    \cup {c \in Layouts \cup VideoWalls :
        res \in containedResources(c) /\ grantsAccess(accessMap, c, accessRight)}

\* AccessSubjectEditingContext::accessDetails: for the current subject and each of its
\* recursive parents that gives access, the providers.
accessDetails(ownMap, groupMaps, res, accessRight) ==
    LET subjects == {currentSubjectId} \cup recursiveParents({currentSubjectId}, {})
        granting == {s \in subjects :
            providersOf(accessMapOf(s, ownMap, groupMaps), res, accessRight) # {}}
    IN [s \in granting |-> providersOf(accessMapOf(s, ownMap, groupMaps), res, accessRight)]

----------------------------------------------------------------------------
(* ResourceAccessRightsModel *)

groupId(nt) ==
    CASE nt = "camerasAndDevices" -> kAllDevicesGroupId
      [] nt = "videoWalls" -> kAllVideoWallsGroupId
      [] nt \in {"integrations", "webPages"} -> kAllWebPagesGroupId
      [] nt = "servers" -> kAllServersGroupId
      [] OTHER -> NullId

rowCount(list) == Len(list)

getGroupResources(ctx, pool, group) ==
    IF ctx = NullId \/ group \notin SpecialResourceGroups THEN <<>>
    ELSE CASE group = kAllDevicesGroupId -> Enumerate(pool \cap Cameras)
           [] group = kAllServersGroupId -> Enumerate(pool \cap Servers)
           [] group = kAllWebPagesGroupId -> Enumerate(pool \cap WebPages)
           [] group = kAllVideoWallsGroupId -> Enumerate(pool \cap VideoWalls)

getGroupContents(ctx, pool, group) == getGroupResources(ctx, pool, group)

ResourceAccessInfo == [providedVia |-> "none", providerUserGroups |-> <<>>,
    indirectProviders |-> <<>>, checkedChildCount |-> 0, totalChildCount |-> 0]

\* ResourceAccessInfo::operator==
InfoEquals(a, b) ==
    /\ a.providedVia = b.providedVia
    /\ a.providerUserGroups = b.providerUserGroups
    /\ a.indirectProviders = b.indirectProviders
    /\ a.checkedChildCount = b.checkedChildCount

\* QVector<ResourceAccessInfo>::operator==
InfoVectorEquals(a, b) ==
    /\ Len(a) = Len(b)
    /\ \A i \in 1..Len(a) : InfoEquals(a[i], b[i])

providerType(provider) ==
    IF provider \in Layouts THEN "layout"
    ELSE IF provider \in VideoWalls THEN "videowall"
    ELSE "unknown"

\* Faulty variant: the video wall has the greater key.
priorityKey_VideoWallFirst(providedVia) ==
    CASE providedVia = "videowall" -> 2
      [] providedVia = "layout" -> 1
      [] OTHER -> 0

priorityKey(providedVia) ==
    CASE providedVia = "videowall" -> 1
      [] providedVia = "layout" -> 2
      [] OTHER -> 0

\* Faulty variant: every resource of the group is counted as checked.
countGroupResources_CountsAllChecked(ctx, pool, ownMap, group, accessRight, newInfo) ==
    LET contents == getGroupResources(ctx, pool, group)
    IN [newInfo EXCEPT
        !.totalChildCount = Len(contents),
        !.checkedChildCount = Len(contents)]

\* Faulty variant: the total is the number of checked resources.
countGroupResources_TotalIsChecked(ctx, pool, ownMap, group, accessRight, newInfo) ==
    LET contents == getGroupResources(ctx, pool, group)
        checked ==
            Cardinality({i \in 1..Len(contents) : accessRight \in Value(ownMap, contents[i])})
    IN [newInfo EXCEPT !.totalChildCount = checked, !.checkedChildCount = checked]

countGroupResources(ctx, pool, ownMap, group, accessRight, newInfo) ==
    LET contents == getGroupResources(ctx, pool, group)
    IN [newInfo EXCEPT
        !.totalChildCount = Len(contents),
        !.checkedChildCount =
            Cardinality({i \in 1..Len(contents) : accessRight \in Value(ownMap, contents[i])})]

\* The loop over the indirect providers in updateInfo.
RECURSIVE scanProviders(_, _)
scanProviders(providers, newInfo) ==
    IF providers = <<>> THEN newInfo
    ELSE LET provider == Head(providers)
             providedVia == providerType(provider)
         IN scanProviders(Tail(providers), [newInfo EXCEPT
                !.providedVia =
                    IF priorityKey(providedVia) > priorityKey(@) THEN providedVia ELSE @,
                !.indirectProviders = InsertAt(@, upper_bound(@, provider), provider)])

\* Faulty variant: only the direct parents that hold the grant themselves are listed.
RECURSIVE scanDirectParents_OnlyProviders(_, _)
scanDirectParents_OnlyProviders(parents, providerIds) ==
    IF parents = <<>> THEN <<>>
    ELSE (IF Head(parents) \in providerIds THEN <<Head(parents)>> ELSE <<>>)
         \o scanDirectParents_OnlyProviders(Tail(parents), providerIds)

\* The loop over the direct parents in updateInfo.
RECURSIVE scanDirectParents(_, _)
scanDirectParents(parents, providerIds) ==
    IF parents = <<>> THEN <<>>
    ELSE (IF Head(parents) \in providerIds \/ isRecursiveMember(Head(parents), providerIds)
            THEN <<Head(parents)>> ELSE <<>>)
         \o scanDirectParents(Tail(parents), providerIds)

\* Faulty variant: a right held on the resource itself is reported as own before the
\* resource group is looked at.
resourceInfo_OwnFirst(ownMap, groupMaps, res, accessRight) ==
    LET details == accessDetails(ownMap, groupMaps, res, accessRight)
    IN IF currentSubjectId \in DOMAIN details
         THEN LET providers == details[currentSubjectId]
              IN IF res \in providers
                   THEN LET resourceGroupId == specialResourceGroupFor(res)
                            accessViaResourceGroup == resourceGroupId # NullId
                                /\ hasOwnAccessRight(ownMap, resourceGroupId, accessRight)
                        IN [ResourceAccessInfo EXCEPT !.providedVia =
                                IF hasOwnAccessRight(ownMap, res, accessRight) THEN "own"
                                ELSE IF accessViaResourceGroup THEN "ownResourceGroup"
                                ELSE "own"]
                   ELSE scanProviders(Enumerate(providers), ResourceAccessInfo)
       ELSE IF DOMAIN details # {}
         THEN [ResourceAccessInfo EXCEPT
                !.providedVia = "parentUserGroup",
                !.providerUserGroups = sort(scanDirectParents(
                    Enumerate(directParents(currentSubjectId)), DOMAIN details))]
       ELSE ResourceAccessInfo

\* The body of the row loop of updateInfo for a resource (not a resource group).
resourceInfo(ownMap, groupMaps, res, accessRight) ==
    LET details == accessDetails(ownMap, groupMaps, res, accessRight)
    IN IF currentSubjectId \in DOMAIN details
         THEN LET providers == details[currentSubjectId]
              IN IF res \in providers
                   THEN LET resourceGroupId == specialResourceGroupFor(res)
                            accessViaResourceGroup == resourceGroupId # NullId
                                /\ hasOwnAccessRight(ownMap, resourceGroupId, accessRight)
                        IN [ResourceAccessInfo EXCEPT !.providedVia =
                                IF accessViaResourceGroup THEN "ownResourceGroup" ELSE "own"]
                   ELSE scanProviders(Enumerate(providers), ResourceAccessInfo)
       ELSE IF DOMAIN details # {}
         THEN [ResourceAccessInfo EXCEPT
                !.providedVia = "parentUserGroup",
                !.providerUserGroups = sort(scanDirectParents(
                    Enumerate(directParents(currentSubjectId)), DOMAIN details))]
       ELSE ResourceAccessInfo

\* One element of newResourceAccessInfo as updateInfo computes it.
rowInfo(ctx, pool, res, nt, ownMap, groupMaps, accessRight) ==
    LET group == groupId(nt)
        isResourceGroup == group # NullId
    IN IF ctx # NullId /\ currentSubjectId # NullId /\ (res # NullId \/ isResourceGroup)
         THEN IF isResourceGroup
                THEN IF hasOwnAccessRight(ownMap, group, accessRight)
                       THEN [ResourceAccessInfo EXCEPT !.providedVia = "own"]
                       ELSE countGroupResources(ctx, pool, ownMap, group, accessRight,
                            ResourceAccessInfo)
                ELSE resourceInfo(ownMap, groupMaps, res, accessRight)
         ELSE ResourceAccessInfo

\* Faulty variant: the rows are not resized to the list.
updateInfo_KeepsSize(ctx, pool, list, res, nt, ownMap, groupMaps, oldInfo) ==
    [i \in 1..Len(oldInfo) |->
        IF i <= Len(list) THEN rowInfo(ctx, pool, res, nt, ownMap, groupMaps, list[i])
        ELSE oldInfo[i]]

\* Private::updateInfo: the value of `info` after the call.
updateInfo(ctx, pool, list, res, nt, ownMap, groupMaps, oldInfo) ==
    LET newResourceAccessInfo ==
            [i \in 1..Len(list) |-> rowInfo(ctx, pool, res, nt, ownMap, groupMaps, list[i])]
    IN IF InfoVectorEquals(newResourceAccessInfo, oldInfo) THEN oldInfo
       ELSE newResourceAccessInfo

\* toggle: the id of the toggled item (index is 0-based as in the source).
toggledId(res, nt) == IF res # NullId THEN res ELSE groupId(nt)

\* toggle: allChildrenWereChecked, read from the stored info of the row.
allChildrenWereChecked(storedInfo, index) ==
    /\ storedInfo[index + 1].totalChildCount > 0
    /\ storedInfo[index + 1].totalChildCount = storedInfo[index + 1].checkedChildCount

\* Faulty variant: any right of the outer group counts.
outerGroupWasChecked_AnyRight(ownMap, res, toggledRight) ==
    LET outerGroupId == specialResourceGroupFor(res)
    IN outerGroupId # NullId /\ Value(ownMap, outerGroupId) # {}

\* toggle: outerGroupWasChecked.
outerGroupWasChecked(ownMap, res, toggledRight) ==
    LET outerGroupId == specialResourceGroupFor(res)
        hasOuterGroup == outerGroupId # NullId
        outerGroupAccessRights == IF hasOuterGroup THEN Value(ownMap, outerGroupId) ELSE {}
    IN toggledRight \in outerGroupAccessRights

\* Faulty variant: the item's own bits are not consulted.
itemWasChecked_IgnoresOwn(ownMap, res, nt, toggledRight) ==
    outerGroupWasChecked(ownMap, res, toggledRight)

\* toggle: itemWasChecked.
itemWasChecked(ownMap, res, nt, toggledRight) ==
    \/ outerGroupWasChecked(ownMap, res, toggledRight)
    \/ toggledRight \in Value(ownMap, toggledId(res, nt))

\* Faulty variant: the child counts are not consulted.
itemWillBeChecked_IgnoresChildren(ownMap, res, nt, storedInfo, index, toggledRight) ==
    ~itemWasChecked(ownMap, res, nt, toggledRight)

\* toggle: itemWillBeChecked.
itemWillBeChecked(ownMap, res, nt, storedInfo, index, toggledRight) ==
    ~(itemWasChecked(ownMap, res, nt, toggledRight) \/ allChildrenWereChecked(storedInfo, index))

\* Faulty variant: the mask is never widened.
toggledMask_IgnoresDependents(toggledRight, withDependentAccessRights, willBeChecked) ==
    {toggledRight}

\* toggle: toggledMask.
\* Faulty variant: the mask is widened whether dependent rights were asked for or not.
toggledMask_AlwaysWidened(toggledRight, withDependentAccessRights, willBeChecked) ==
    {toggledRight} \cup (IF willBeChecked THEN requiredAccessRights(toggledRight)
        ELSE dependentAccessRights(toggledRight))

toggledMask(toggledRight, withDependentAccessRights, willBeChecked) ==
    IF withDependentAccessRights
      THEN {toggledRight} \cup (IF willBeChecked
            THEN requiredAccessRights(toggledRight)
            ELSE dependentAccessRights(toggledRight))
      ELSE {toggledRight}

\* Faulty variant: the children of a toggled group are left alone.
toggleGroupChildren_SkipsChildren(accessMap, contents, mask, itemAccessRights, wasChecked) ==
    accessMap

\* Faulty variant: the children of a toggled group are always toggled off.
toggleGroupChildren_AlwaysOff(accessMap, contents, mask, itemAccessRights, wasChecked) ==
    modifyEach(accessMap, contents, mask, FALSE)

\* Faulty variant: the children of a group toggled off get the whole mask.
toggleGroupChildren_WholeMask(accessMap, contents, mask, itemAccessRights, wasChecked) ==
    modifyEach(accessMap, contents, mask, wasChecked)

\* toggle: the `if (isGroup)` block, which toggles the children of a toggled group.
toggleGroupChildren(accessMap, contents, mask, itemAccessRights, wasChecked) ==
    modifyEach(accessMap, contents,
        IF wasChecked THEN mask \cap itemAccessRights ELSE mask,
        wasChecked)

\* Faulty variant: the outer group is toggled off without toggling its children on.
splitOuterGroup_SkipsChildren(accessMap, contents, outerGroupId, mask) ==
    modifyAccessRights(accessMap, outerGroupId, mask, FALSE)

\* Faulty variant: the children are toggled on but the outer group keeps its bits.
splitOuterGroup_KeepsGroup(accessMap, contents, outerGroupId, mask) ==
    modifyEach(accessMap, contents, mask, TRUE)

\* toggle: the `if (outerGroupWasChecked)` block, which toggles the outer group off and all
\* its children on.
splitOuterGroup(accessMap, contents, outerGroupId, mask) ==
    modifyAccessRights(modifyEach(accessMap, contents, mask, TRUE), outerGroupId, mask, FALSE)

\* The access map that toggle passes to setOwnResourceAccessMap.
toggledAccessMap(ctx, pool, list, res, nt, storedInfo, ownMap, index, withDependents) ==
    LET id == toggledId(res, nt)
        toggledRight == list[index + 1]
        isGroup == res = NullId
        outerGroupId == specialResourceGroupFor(res)
        itemAccessRights == Value(ownMap, id)
        wasChecked == itemWasChecked(ownMap, res, nt, toggledRight)
        willBeChecked == itemWillBeChecked(ownMap, res, nt, storedInfo, index, toggledRight)
        mask == toggledMask(toggledRight, withDependents, willBeChecked)
        map1 == IF isGroup
            THEN toggleGroupChildren(ownMap, getGroupContents(ctx, pool, id), mask,
                itemAccessRights, wasChecked)
            ELSE ownMap
        map2 == IF outerGroupWasChecked(ownMap, res, toggledRight)
            THEN splitOuterGroup(map1, getGroupContents(ctx, pool, outerGroupId),
                outerGroupId, mask)
            ELSE map1
    IN modifyAccessRights(map2, id, mask, willBeChecked)

\* Faulty variant: the null target id is not rejected.
toggleApplies_AcceptsNullId(ctx, list, res, nt, index) ==
    ~(index >= rowCount(list) \/ index < 0 \/ ctx = NullId)

\* The early returns of toggle.
toggleApplies(ctx, list, res, nt, index) ==
    /\ ~(index >= rowCount(list) \/ index < 0 \/ ctx = NullId)
    /\ toggledId(res, nt) # NullId

\* Faulty variant: the map is stored whatever the subject.
setOwnResourceAccessMap_AnySubject(subject, ownMap, accessMap) == accessMap

\* AccessSubjectEditingContext::setOwnResourceAccessMap: the own access map of the current
\* subject after the call; without a current subject there is no map to replace.
setOwnResourceAccessMap(subject, ownMap, accessMap) ==
    IF subject = NullId THEN ownMap ELSE accessMap

----------------------------------------------------------------------------
(* Inputs *)

ContextValues == {kContext}
AccessRightLists == {<<view, viewArchive>>}
ResourceValues == {NullId, camA, layoutL}
NodeTypeValues == {"spacer", "camerasAndDevices", "servers"}
ToggleIndexes == -1..2

\* Resources that are always in the pool; server1 is added and removed.
PermanentResources == Cameras \cup Layouts \cup VideoWalls

NoToggle == [called |-> FALSE, applied |-> FALSE, index |-> 0,
    withDependentAccessRights |-> FALSE, accessMap |-> EmptyMap, info |-> <<>>]

NoGroupMaps == [s \in {} |-> EmptyMap]

\* QSize() of a default-constructed ResolutionData, and no call of its JSON functions.
DefaultSize == [width |-> -1, height |-> -1]
NoJsonCall == [serialized |-> FALSE, called |-> FALSE, size |-> DefaultSize, text |-> <<>>,
    result |-> FALSE, initial |-> DefaultSize, target |-> DefaultSize]

\* No call of merge_sorted_lists.
NoMergeCall == [called |-> FALSE, sortedLists |-> <<>>, sortOrder |-> "ascending",
    totalLimit |-> 0, removeDuplicates |-> FALSE, result |-> <<>>]

\* Access maps of the parent groups: h1 grants viewArchive on camA.
InitialGroupMaps == {[s \in {h1} |-> [r \in {camA} |-> {viewArchive}]]}

----------------------------------------------------------------------------
(* State machine *)

Init ==
    /\ context = NullId
    /\ accessRightList = <<>>
    /\ resource = NullId
    /\ nodeType = "spacer"
    /\ info = <<>>
    /\ ownResourceAccessMap = EmptyMap
    /\ groupAccessMaps \in InitialGroupMaps
    /\ currentSubjectId = u1
    /\ resourcePool = PermanentResources
    /\ lastToggle = NoToggle
    /\ mergeCall = NoMergeCall
    /\ jsonCall = NoJsonCall

setContext(value) ==
    /\ context # value
    /\ context' = value
    /\ info' = updateInfo(value, resourcePool, accessRightList, resource, nodeType,
        ownResourceAccessMap, groupAccessMaps, info)
    /\ lastToggle' = NoToggle
    /\ UNCHANGED <<accessRightList, resource, nodeType, ownResourceAccessMap,
        groupAccessMaps, currentSubjectId, resourcePool>>
    /\ UNCHANGED <<mergeCall, jsonCall>>

setAccessRightsList(value) ==
    /\ accessRightList # value
    /\ accessRightList' = value
    /\ info' = updateInfo(context, resourcePool, value, resource, nodeType,
        ownResourceAccessMap, groupAccessMaps, info)
    /\ lastToggle' = NoToggle
    /\ UNCHANGED <<context, resource, nodeType, ownResourceAccessMap,
        groupAccessMaps, currentSubjectId, resourcePool>>
    /\ UNCHANGED <<mergeCall, jsonCall>>

setResource(value) ==
    /\ resource # value
    /\ resource' = value
    /\ info' = updateInfo(context, resourcePool, accessRightList, value, nodeType,
        ownResourceAccessMap, groupAccessMaps, info)
    /\ lastToggle' = NoToggle
    /\ UNCHANGED <<context, accessRightList, nodeType, ownResourceAccessMap,
        groupAccessMaps, currentSubjectId, resourcePool>>
    /\ UNCHANGED <<mergeCall, jsonCall>>

setNodeType(value) ==
    /\ nodeType # value
    /\ nodeType' = value
    /\ info' = updateInfo(context, resourcePool, accessRightList, resource, value,
        ownResourceAccessMap, groupAccessMaps, info)
    /\ lastToggle' = NoToggle
    /\ UNCHANGED <<context, accessRightList, resource, ownResourceAccessMap,
        groupAccessMaps, currentSubjectId, resourcePool>>
    /\ UNCHANGED <<mergeCall, jsonCall>>

\* toggle, then the resourceAccessChanged handler connected in setContext (updateInfo).
toggle(index, withDependentAccessRights) ==
    /\ IF toggleApplies(context, accessRightList, resource, nodeType, index)
         THEN /\ ownResourceAccessMap' = setOwnResourceAccessMap(currentSubjectId,
                    ownResourceAccessMap,
                    toggledAccessMap(context, resourcePool, accessRightList, resource,
                        nodeType, info, ownResourceAccessMap, index,
                        withDependentAccessRights))
              /\ info' = updateInfo(context, resourcePool, accessRightList, resource,
                    nodeType, ownResourceAccessMap', groupAccessMaps, info)
         ELSE UNCHANGED <<ownResourceAccessMap, info>>
    /\ lastToggle' = [called |-> TRUE,
            applied |-> toggleApplies(context, accessRightList, resource, nodeType, index),
            index |-> index,
            withDependentAccessRights |-> withDependentAccessRights,
            accessMap |-> ownResourceAccessMap,
            info |-> info]
    /\ UNCHANGED <<context, accessRightList, resource, nodeType, groupAccessMaps,
        currentSubjectId, resourcePool>>
    /\ UNCHANGED <<mergeCall, jsonCall>>

\* A server joins or leaves the resource pool; the context emits resourceGroupsChanged for
\* the servers group and the handler connected in setContext runs updateInfo when that is
\* the displayed group.
resourceGroupsChanged(server) ==
    /\ resourcePool' = IF server \in resourcePool
         THEN resourcePool \ {server} ELSE resourcePool \cup {server}
    /\ info' = IF context # NullId /\ groupId(nodeType) = kAllServersGroupId
         THEN updateInfo(context, resourcePool', accessRightList, resource, nodeType,
            ownResourceAccessMap, groupAccessMaps, info)
         ELSE info
    /\ lastToggle' = NoToggle
    /\ UNCHANGED <<context, accessRightList, resource, nodeType, ownResourceAccessMap,
        groupAccessMaps, currentSubjectId>>
    /\ UNCHANGED <<mergeCall, jsonCall>>

Next ==
    \/ \E value \in ContextValues : setContext(value)
    \/ \E value \in AccessRightLists : setAccessRightsList(value)
    \/ \E value \in ResourceValues : setResource(value)
    \/ \E value \in NodeTypeValues : setNodeType(value)
    \/ \E index \in ToggleIndexes, withDependentAccessRights \in BOOLEAN :
        toggle(index, withDependentAccessRights)
    \/ \E server \in Servers : resourceGroupsChanged(server)

Spec == Init /\ [][Next]_vars

TypeOK ==
    /\ context \in ContextValues \cup {NullId}
    /\ resource \in ResourceValues
    /\ nodeType \in NodeTypeValues
    /\ accessRightList \in AccessRightLists \cup {<<>>}
    /\ DOMAIN ownResourceAccessMap \subseteq Resources \cup SpecialResourceGroups
    /\ \A id \in DOMAIN ownResourceAccessMap : ownResourceAccessMap[id] \subseteq AccessRight

----------------------------------------------------------------------------
(* Vocabulary of the properties *)

\* The right toggled by the last toggle call, and the access map it started from.
ToggledRight == accessRightList[lastToggle.index + 1]
PreMap == lastToggle.accessMap

\* Whether the last toggle call decided to check the item (itemWillBeChecked).
ToggleWillCheck ==
    itemWillBeChecked(PreMap, resource, nodeType, lastToggle.info, lastToggle.index,
        ToggledRight)

\* Members of a special resource group in the current pool.
Members(group) == Range(getGroupContents(kContext, resourcePool, group))

\* Own bits united with the own bits of the resource's special group.
effectiveRights(accessMap, res) ==
    Value(accessMap, res) \cup Value(accessMap, specialResourceGroupFor(res))

\* What updateInfo computes for an individual resource and a right.
resolve(accessMap, res, accessRight) ==
    resourceInfo(accessMap, groupAccessMaps, res, accessRight)

\* What updateInfo computes for the displayed target and a right.
resolveTarget(accessMap, accessRight) ==
    rowInfo(context, resourcePool, resource, nodeType, accessMap, groupAccessMaps, accessRight)

\* No layout or video wall gives the subject the right on the resource, and no parent group
\* gives it in any way.
NoIndirectGrant(accessMap, res, accessRight) ==
    /\ providersOf(accessMap, res, accessRight) \subseteq {res}
    /\ \A s \in recursiveParents({currentSubjectId}, {}) :
        providersOf(accessMapOf(s, accessMap, groupAccessMaps), res, accessRight) = {}

\* Two access maps have the same entry (or both none) for an id.
SameEntry(a, b, id) ==
    /\ id \in DOMAIN a <=> id \in DOMAIN b
    /\ Value(a, id) = Value(b, id)

----------------------------------------------------------------------------
(* C1 *)

\* The last call was toggle(A, R, includeDependents = false) on a camera A whose group held R
\* as an own grant while no camera held R itself and nothing else granted R on a camera.
C1_Case ==
    /\ lastToggle.applied
    /\ ~lastToggle.withDependentAccessRights
    /\ resource \in Cameras
    /\ ToggledRight \in Value(PreMap, kAllDevicesGroupId)
    /\ \A m \in Cameras :
        /\ ToggledRight \notin Value(PreMap, m)
        /\ NoIndirectGrant(PreMap, m, ToggledRight)

\* C1 as stated: after the partial revoke the siblings of A still resolve as provided via
\* their resource group, and A resolves as none.
C1_SiblingsStayViaCollection ==
    C1_Case =>
        /\ \A b \in Cameras \ {resource} :
            resolve(ownResourceAccessMap, b, ToggledRight).providedVia = "ownResourceGroup"
        /\ resolve(ownResourceAccessMap, resource, ToggledRight).providedVia = "none"

\* C1 amended: after the partial revoke every sibling of A keeps the right but resolves as
\* an own grant (the group grant was split into per-member grants), and A resolves as none.
C1_SiblingsBecomeOwn ==
    C1_Case =>
        /\ \A b \in Cameras \ {resource} :
            resolve(ownResourceAccessMap, b, ToggledRight).providedVia = "own"
        /\ resolve(ownResourceAccessMap, resource, ToggledRight).providedVia = "none"

C1_Witness == C1_Case /\ Cardinality(Cameras \ {resource}) >= 2

----------------------------------------------------------------------------
(* C2 *)

\* C2: when toggle revokes a right from a resource whose outer group held it, with either
\* value of includeDependents, the effective rights of every other member of the group are
\* the same after the call as before it.
C2_SiblingsEffectiveRightsUnchanged ==
    (/\ lastToggle.applied
     /\ resource # NullId
     /\ outerGroupWasChecked(PreMap, resource, ToggledRight))
    => \A b \in Members(specialResourceGroupFor(resource)) \ {resource} :
        effectiveRights(ownResourceAccessMap, b) = effectiveRights(PreMap, b)

----------------------------------------------------------------------------
(* C3 *)

\* The last call was toggle(A, R, includeDependents = false) on a member A of a group whose
\* own entry contained R.
C3_Case ==
    /\ lastToggle.applied
    /\ ~lastToggle.withDependentAccessRights
    /\ resource # NullId
    /\ outerGroupWasChecked(PreMap, resource, ToggledRight)

\* C3: splitting a blanket grant gives R to every other member's own entry, clears R from
\* the group's entry (removing the entry when nothing remains), leaves A without R and
\* changes no entry outside the group and its members.
C3_SplitBlanketGrant ==
    C3_Case =>
        LET group == specialResourceGroupFor(resource)
        IN /\ \A m \in Members(group) \ {resource} :
                ToggledRight \in Value(ownResourceAccessMap, m)
           /\ Value(ownResourceAccessMap, group) = Value(PreMap, group) \ {ToggledRight}
           /\ Value(PreMap, group) = {ToggledRight} => group \notin DOMAIN ownResourceAccessMap
           /\ ToggledRight \notin Value(ownResourceAccessMap, resource)
           /\ \A id \in (DOMAIN PreMap \cup DOMAIN ownResourceAccessMap)
                    \ (Members(group) \cup {group}) :
                SameEntry(PreMap, ownResourceAccessMap, id)

C3_Witness ==
    /\ C3_Case
    /\ Value(PreMap, specialResourceGroupFor(resource)) = {ToggledRight}
    /\ layoutL \in DOMAIN PreMap
    /\ Cardinality(Members(specialResourceGroupFor(resource))) >= 3

----------------------------------------------------------------------------
(* C4 *)

\* The last call toggled a resource group on.
C4_Case ==
    /\ lastToggle.applied
    /\ resource = NullId
    /\ ToggleWillCheck

\* C4: after a resource group is toggled on for a right, no member's own entry contains the
\* right and every member resolves as provided via its resource group.
C4_GroupBulkOn ==
    C4_Case =>
        \A m \in Members(groupId(nodeType)) :
            /\ ToggledRight \notin Value(ownResourceAccessMap, m)
            /\ resolve(ownResourceAccessMap, m, ToggledRight).providedVia = "ownResourceGroup"

\* Some member held the right individually before the group was toggled on.
C4_Witness ==
    /\ C4_Case
    /\ Cardinality(Members(groupId(nodeType))) >= 3
    /\ \E m \in Members(groupId(nodeType)) : ToggledRight \in Value(PreMap, m)

----------------------------------------------------------------------------
(* C5 *)

\* currentlyChecked evaluated on an access map: the item has the right itself, or it is a
\* resource whose group has it, or it is a group all of whose members have it.
isChecked(accessMap, res, nt, accessRight) ==
    IF res # NullId
      THEN accessRight \in effectiveRights(accessMap, res)
      ELSE \/ accessRight \in Value(accessMap, groupId(nt))
           \/ /\ Members(groupId(nt)) # {}
              /\ \A m \in Members(groupId(nt)) : accessRight \in Value(accessMap, m)

\* What updateInfo computes for the toggled item: the resource if one is set, otherwise the
\* resource group of the node type.
resolveToggled(accessMap, accessRight) ==
    IF resource # NullId
      THEN resolve(accessMap, resource, accessRight)
      ELSE rowInfo(context, resourcePool, NullId, nodeType, accessMap, groupAccessMaps,
            accessRight)

\* The access map after toggling the same row once more, without dependent rights.
ToggledAgain ==
    toggledAccessMap(context, resourcePool, accessRightList, resource, nodeType, info,
        ownResourceAccessMap, lastToggle.index, FALSE)

\* The last call was toggle(includeDependents = false) on an unchecked item.
C5_Case ==
    /\ lastToggle.applied
    /\ ~lastToggle.withDependentAccessRights
    /\ ~isChecked(PreMap, resource, nodeType, ToggledRight)

C5_RoundTrip ==
    /\ resolveToggled(ownResourceAccessMap, ToggledRight).providedVia
        \in {"own", "ownResourceGroup"}
    /\ ToggledAgain = PreMap
    /\ resolveToggled(ToggledAgain, ToggledRight) = resolveToggled(PreMap, ToggledRight)

C5_ResourceOrEmptyGroup ==
    \/ resource # NullId /\ groupId(nodeType) = NullId
    \/ resource = NullId /\ Members(groupId(nodeType)) = {}

C5_WitnessEmptyGroup ==
    /\ C5_Case
    /\ resource = NullId /\ Members(groupId(nodeType)) = {}
    /\ ownResourceAccessMap # PreMap

----------------------------------------------------------------------------
(* C6 *)

\* C6: no right is held as an own grant both by the all-devices group and by one of its
\* cameras (the membership of the group is fixed).
C6_NoRightAtBothLevels ==
    \A c \in Cameras :
        Value(ownResourceAccessMap, c) \cap Value(ownResourceAccessMap, kAllDevicesGroupId)
            = {}

----------------------------------------------------------------------------
(* C7 *)

\* C7: the access map never contains an entry whose mask is zero.
C7_NoZeroEntry ==
    \A id \in DOMAIN ownResourceAccessMap : ownResourceAccessMap[id] # {}

\* A toggle cleared the last bits of an entry, which is gone from the map.
C7_Witness ==
    /\ lastToggle.applied
    /\ \E id \in DOMAIN PreMap : id \notin DOMAIN ownResourceAccessMap

----------------------------------------------------------------------------
(* C8 *)

\* The last call was toggle(viewArchive, includeDependents = true) and checked the item.
C8_GrantCase ==
    /\ lastToggle.applied
    /\ lastToggle.withDependentAccessRights
    /\ ToggledRight = viewArchive
    /\ ToggleWillCheck

\* The last call was toggle(view, includeDependents = true) on an item that had view and
\* viewArchive in its own entry.
C8_RevokeCase ==
    /\ lastToggle.applied
    /\ lastToggle.withDependentAccessRights
    /\ ToggledRight = view
    /\ {view, viewArchive} \subseteq Value(PreMap, toggledId(resource, nodeType))

\* The rights the toggled item has: own bits, and for a resource the bits of its group.
C8_Granted ==
    IF resource # NullId THEN effectiveRights(ownResourceAccessMap, resource)
    ELSE Value(ownResourceAccessMap, groupId(nodeType))

C8_WitnessGrant ==
    /\ C8_GrantCase
    /\ view \notin Value(PreMap, toggledId(resource, nodeType))

----------------------------------------------------------------------------
(* The resolver on its own: the access maps of the subject and of its parent groups are    *)
(* drawn from bounded sets and never toggled; the setters run updateInfo.                  *)

\* Own access maps: view granted on any subset of these ids.
ResolveTargets == {camA, layoutL, videoWallV, kAllDevicesGroupId}
ResolveOwnMaps == {[id \in ids |-> {view}] : ids \in SUBSET ResolveTargets}

\* Access map of a parent group: nothing, view on camA, or view on layoutL.
ResolveGroupMapValues ==
    {EmptyMap, [id \in {camA} |-> {view}], [id \in {layoutL} |-> {view}]}
ResolveGroupMaps == [{g1, g2, h1} -> ResolveGroupMapValues]

InitResolve ==
    /\ context = NullId
    /\ accessRightList = <<>>
    /\ resource = NullId
    /\ nodeType = "spacer"
    /\ info = <<>>
    /\ ownResourceAccessMap \in ResolveOwnMaps
    /\ groupAccessMaps \in ResolveGroupMaps
    /\ currentSubjectId \in {u1, g1}
    /\ resourcePool = PermanentResources
    /\ lastToggle = NoToggle
    /\ mergeCall = NoMergeCall
    /\ jsonCall = NoJsonCall

NextResolve ==
    \/ \E value \in ContextValues : setContext(value)
    \/ \E value \in AccessRightLists : setAccessRightsList(value)
    \/ \E value \in ResourceValues : setResource(value)
    \/ \E value \in NodeTypeValues : setNodeType(value)

SpecResolve == InitResolve /\ [][NextResolve]_vars

\* The subject's recursive parents.
Ancestors == recursiveParents({currentSubjectId}, {})

\* The own access map of a subject gives the right on the resource.
GrantedBy(s, res, accessRight) ==
    providersOf(accessMapOf(s, ownResourceAccessMap, groupAccessMaps), res, accessRight) # {}

\* A sequence of ids is strictly ascending.
Ascending(ids) == \A i, j \in 1..Len(ids) : i < j => ids[i] < ids[j]

----------------------------------------------------------------------------
(* C9 *)

\* Row i shows a resource to which the subject has no access of its own while some
\* recursive parent holds the grant.
C9_Case(i) ==
    /\ context # NullId
    /\ resource # NullId
    /\ groupId(nodeType) = NullId
    /\ ~GrantedBy(currentSubjectId, resource, accessRightList[i])
    /\ \E a \in Ancestors : GrantedBy(a, resource, accessRightList[i])

\* The direct parents that hold the grant or have a recursive parent that holds it.
C9_ProvidingDirectParents(accessRight) ==
    {p \in directParents(currentSubjectId) :
        \E a \in {p} \cup recursiveParents({p}, {}) : GrantedBy(a, resource, accessRight)}

\* C9: the row is provided via a parent group and lists, in ascending order and once each,
\* exactly the direct parents that hold the grant or inherit it; a granting group that is
\* not a direct parent is not listed.
C9_DirectParentsOnly ==
    \A i \in 1..Len(info) :
        C9_Case(i) =>
            /\ info[i].providedVia = "parentUserGroup"
            /\ Range(info[i].providerUserGroups)
                = C9_ProvidingDirectParents(accessRightList[i])
            /\ Ascending(info[i].providerUserGroups)
            /\ Range(info[i].providerUserGroups) \subseteq directParents(currentSubjectId)

\* u1 -> g1 -> h1 with only h1 granting: the row lists g1.
C9_Witness ==
    /\ currentSubjectId = u1
    /\ Len(info) >= 1
    /\ C9_Case(1)
    /\ {a \in Ancestors : GrantedBy(a, resource, accessRightList[1])} = {h1}
    /\ info[1].providerUserGroups = <<g1>>

\* Both direct parents provide the right.
C9_WitnessBothParents ==
    /\ Len(info) >= 1
    /\ C9_Case(1)
    /\ info[1].providerUserGroups = <<g2, g1>>

----------------------------------------------------------------------------
(* C10 *)

\* The right is in no entry of the access map of the subject or of a recursive parent.
C10_NeverGranted(accessRight) ==
    \A s \in {currentSubjectId} \cup Ancestors :
        \A id \in DOMAIN accessMapOf(s, ownResourceAccessMap, groupAccessMaps) :
            accessRight \notin accessMapOf(s, ownResourceAccessMap, groupAccessMaps)[id]

C10_None(rowInfoValue) ==
    /\ rowInfoValue.providedVia = "none"
    /\ rowInfoValue.checkedChildCount = 0

\* C10: a right that is granted nowhere in the subject's hierarchy resolves as none, with no
\* checked child, for every resource and every resource group, and so does its stored row.
C10_NeverGrantedResolvesNone ==
    \A accessRight \in AccessRight :
        C10_NeverGranted(accessRight) =>
            /\ \A res \in Resources \cup {NullId}, nt \in NodeTypes :
                C10_None(rowInfo(kContext, resourcePool, res, nt, ownResourceAccessMap,
                    groupAccessMaps, accessRight))
            /\ \A i \in 1..Len(info) :
                accessRightList[i] = accessRight => C10_None(info[i])

\* viewArchive is granted nowhere and its row is none, while view is provided by a parent.
C10_Witness ==
    /\ context # NullId
    /\ resource = camA
    /\ accessRightList = <<view, viewArchive>>
    /\ C10_NeverGranted(viewArchive)
    /\ info[2].providedVia = "none"
    /\ info[1].providedVia = "parentUserGroup"

----------------------------------------------------------------------------
(* C11 *)

\* The rows updateInfo would compute now, before it compares them with the stored ones.
newResourceAccessInfoNow ==
    [i \in 1..Len(accessRightList) |-> rowInfo(context, resourcePool, resource, nodeType,
        ownResourceAccessMap, groupAccessMaps, accessRightList[i])]

\* C11: two rows compare equal (operator==) exactly when every field is equal, the total
\* child count included; stated for each stored row and the freshly computed row that
\* updateInfo compares it with.
C11_EqualIffEveryFieldEqual ==
    \A i \in 1..Len(info) :
        i <= Len(accessRightList) =>
            (InfoEquals(info[i], newResourceAccessInfoNow[i])
                <=> info[i] = newResourceAccessInfoNow[i])

----------------------------------------------------------------------------
(* C12 *)

\* The last call was a toggle with a row index outside [0, rowCount), with no context, or
\* with a null target id.
C12_InvalidCall ==
    /\ lastToggle.called
    /\ \/ lastToggle.index < 0
       \/ lastToggle.index >= rowCount(accessRightList)
       \/ context = NullId
       \/ toggledId(resource, nodeType) = NullId

C12_WitnessRow ==
    /\ C12_InvalidCall
    /\ context # NullId
    /\ toggledId(resource, nodeType) # NullId
    /\ lastToggle.index >= rowCount(accessRightList)
    /\ rowCount(accessRightList) > 0
    /\ ownResourceAccessMap # EmptyMap

\* A toggle without context.
C12_WitnessNoContext ==
    /\ C12_InvalidCall
    /\ context = NullId
    /\ lastToggle.index \in 0..(rowCount(accessRightList) - 1)

----------------------------------------------------------------------------
(* The model without a current subject: the context holds the null subject id, whose own   *)
(* access map is empty; every operation of the model is available.                         *)

InitUnknownSubject ==
    /\ context = NullId
    /\ accessRightList = <<>>
    /\ resource = NullId
    /\ nodeType = "spacer"
    /\ info = <<>>
    /\ ownResourceAccessMap = EmptyMap
    /\ groupAccessMaps \in InitialGroupMaps
    /\ currentSubjectId = NullId
    /\ resourcePool = PermanentResources
    /\ lastToggle = NoToggle
    /\ mergeCall = NoMergeCall
    /\ jsonCall = NoJsonCall

SpecUnknownSubject == InitUnknownSubject /\ [][Next]_vars

----------------------------------------------------------------------------
(* C13 *)

C13_WitnessGroup ==
    /\ currentSubjectId = NullId
    /\ lastToggle.called
    /\ lastToggle.applied
    /\ resource = NullId
    /\ groupId(nodeType) = kAllDevicesGroupId

----------------------------------------------------------------------------
(* The model with lists of rights of several lengths and orders, one of which holds a bit   *)
(* that is no declared AccessRight flag (an integer cast to the enumeration by the caller). *)

undeclaredRight == "undeclared"

RowLists == {<<>>, <<view>>, <<view, undeclaredRight>>, <<undeclaredRight, view>>}
RowContextValues == {NullId, kContext}
RowResourceValues == {NullId, camA}
RowNodeTypeValues == {"spacer", "camerasAndDevices"}

NextRows ==
    \/ \E value \in RowContextValues : setContext(value)
    \/ \E value \in RowLists : setAccessRightsList(value)
    \/ \E value \in RowResourceValues : setResource(value)
    \/ \E value \in RowNodeTypeValues : setNodeType(value)
    \/ \E index \in ToggleIndexes, withDependentAccessRights \in BOOLEAN :
        toggle(index, withDependentAccessRights)

SpecRows == Init /\ [][NextRows]_vars

----------------------------------------------------------------------------
(* C14 *)

\* C14: no entry of the access map holds a bit that is not a declared AccessRight flag.
C14_NoUndeclaredBit ==
    \A id \in DOMAIN ownResourceAccessMap : ownResourceAccessMap[id] \subseteq AccessRight

----------------------------------------------------------------------------
(* C16 *)

\* Row i carries the provenance computed for the right accessRightList[i].
C16_DescribesRight(i) ==
    LET row == rowInfo(context, resourcePool, resource, nodeType, ownResourceAccessMap,
            groupAccessMaps, accessRightList[i])
    IN /\ info[i].providedVia = row.providedVia
       /\ info[i].providerUserGroups = row.providerUserGroups
       /\ info[i].indirectProviders = row.indirectProviders
       /\ info[i].checkedChildCount = row.checkedChildCount

\* C16: in every state reached by the setters and toggle, info has one row per right of the
\* list and row i describes right i.
C16_RowAlignment ==
    /\ Len(info) = rowCount(accessRightList)
    /\ \A i \in 1..Len(info) : C16_DescribesRight(i)

\* After a one-row list was replaced by a two-row list, the second row was toggled on.
C16_Witness ==
    /\ accessRightList = <<undeclaredRight, view>>
    /\ lastToggle.called
    /\ lastToggle.applied
    /\ Len(info) = 2
    /\ info[1].providedVia = "none"
    /\ info[2].providedVia = "own"

\* The list was emptied after rights were granted.
C16_WitnessEmpty ==
    /\ accessRightList = <<>>
    /\ info = <<>>
    /\ ownResourceAccessMap # EmptyMap

----------------------------------------------------------------------------
(* C15 *)

\* Every order in which the elements of a set can be iterated.
C15_Orders(S) == {order \in [1..Cardinality(S) -> S] : Range(order) = S}

\* The containers that provide the right on the shown resource to the current subject, when
\* the subject does not hold it on the resource itself.
C15_Providers(accessRight) ==
    LET details == accessDetails(ownResourceAccessMap, groupAccessMaps, resource, accessRight)
    IN IF currentSubjectId \in DOMAIN details /\ resource \notin details[currentSubjectId]
         THEN details[currentSubjectId] ELSE {}

C15_WitnessParents ==
    /\ context # NullId
    /\ resource = camA
    /\ Len(info) >= 1
    /\ info[1].providerUserGroups = <<g2, g1>>

----------------------------------------------------------------------------
(* nx::utils::algorithm::merge_sorted_lists (merge_sorted_lists.h).  Items are integers;    *)
(* lessItem is operator< or operator> according to the sort order of the source lists.      *)

\* Bounds of the merged inputs.
MaxLists == 3
MaxListLen == 2
MaxValue == 3
MaxLimit == 3

\* std::numeric_limits<int>::max()
kIntMax == 2147483647

lessItem(sortOrder, l, r) == IF sortOrder = "ascending" THEN l < r ELSE l > r

\* processOneList: equals
equals(sortOrder, l, r) == ~(lessItem(sortOrder, l, r) \/ lessItem(sortOrder, r, l))

\* list.erase(std::unique(list.begin(), list.end(), equals), list.end()): of every run of
\* consecutive equivalent items the first is kept.
RECURSIVE unique(_, _)
unique(list, sortOrder) ==
    IF Len(list) <= 1 THEN list
    ELSE LET rest == unique(Tail(list), sortOrder)
         IN IF equals(sortOrder, Head(list), Head(rest)) THEN <<Head(list)>> \o Tail(rest)
            ELSE <<Head(list)>> \o rest

\* Faulty variant: the list is not truncated.
processOneList_NoTruncate(list, limit, sortOrder, removeDuplicates) ==
    IF removeDuplicates THEN unique(list, sortOrder) ELSE list

processOneList(list, limit, sortOrder, removeDuplicates) ==
    LET deduplicated == IF removeDuplicates THEN unique(list, sortOrder) ELSE list
    IN IF Len(deduplicated) <= limit THEN deduplicated
       ELSE SubSeq(deduplicated, 1, limit)

\* std::pop_heap under lessPriority: the index of a range whose first item no other range's
\* first item precedes.  Ranges that tie start with equivalent items.
pop_heap(queueData, sortOrder) ==
    CHOOSE k \in 1..Len(queueData) :
        \A j \in 1..Len(queueData) :
            ~lessItem(sortOrder, Head(queueData[j]), Head(queueData[k]))

\* Faulty variant: every popped item is appended, equivalent to the last one or not.
RECURSIVE heapLoop_KeepsDuplicates(_, _, _, _, _)
heapLoop_KeepsDuplicates(queueData, result, totalLimit, sortOrder, removeDuplicates) ==
    IF queueData = <<>> \/ ~(Len(result) < totalLimit) THEN result
    ELSE LET k == pop_heap(queueData, sortOrder)
             range == queueData[k]
         IN heapLoop_KeepsDuplicates(
                IF Tail(range) = <<>>
                  THEN SubSeq(queueData, 1, k - 1) \o SubSeq(queueData, k + 1, Len(queueData))
                  ELSE [queueData EXCEPT ![k] = Tail(range)],
                Append(result, Head(range)), totalLimit, sortOrder, removeDuplicates)

\* The while loop over the heap of iterator ranges; a range is the part of its list that
\* has not been consumed.
RECURSIVE heapLoop(_, _, _, _, _)
heapLoop(queueData, result, totalLimit, sortOrder, removeDuplicates) ==
    IF queueData = <<>> \/ ~(Len(result) < totalLimit) THEN result
    ELSE LET k == pop_heap(queueData, sortOrder)
             range == queueData[k]
             pushed == IF \/ ~removeDuplicates
                          \/ result = <<>>
                          \/ lessItem(sortOrder, result[Len(result)], Head(range))
                         THEN Append(result, Head(range))
                         ELSE result
             queueData2 == IF Tail(range) = <<>>
                 THEN SubSeq(queueData, 1, k - 1) \o SubSeq(queueData, k + 1, Len(queueData))
                 ELSE [queueData EXCEPT ![k] = Tail(range)]
         IN heapLoop(queueData2, pushed, totalLimit, sortOrder, removeDuplicates)

\* The ranges of the non-empty lists.
RECURSIVE nonEmptyLists(_)
nonEmptyLists(sortedLists) ==
    IF sortedLists = <<>> THEN <<>>
    ELSE (IF Head(sortedLists) = <<>> THEN <<>> ELSE <<Head(sortedLists)>>)
         \o nonEmptyLists(Tail(sortedLists))

merge_sorted_lists(sortedLists, sortOrder, totalLimitArg, removeDuplicates) ==
    LET totalLimit == IF totalLimitArg <= 0 THEN kIntMax ELSE totalLimitArg
        queueData == nonEmptyLists(sortedLists)
    IN IF Len(sortedLists) = 0 THEN <<>>
       ELSE IF Len(sortedLists) = 1
         THEN processOneList(sortedLists[1], totalLimit, sortOrder, removeDuplicates)
       ELSE IF Len(queueData) = 0 THEN <<>>
       ELSE IF Len(queueData) = 1
         THEN processOneList(queueData[1], totalLimit, sortOrder, removeDuplicates)
       ELSE heapLoop(queueData, <<>>, totalLimit, sortOrder, removeDuplicates)

\* A list is sorted consistently with lessItem: no item precedes an earlier one.
SortedBy(list, sortOrder) ==
    \A i, j \in 1..Len(list) : i < j => ~lessItem(sortOrder, list[j], list[i])

\* The source lists: up to MaxListLen items of 1..MaxValue each, sorted in the given order.
SortedListsOf(sortOrder) ==
    {list \in UNION {[1..n -> 1..MaxValue] : n \in 0..MaxListLen} :
        SortedBy(list, sortOrder)}
MergeInputs(sortOrder) ==
    UNION {[1..n -> SortedListsOf(sortOrder)] : n \in 0..MaxLists}
MergeLimits == (-1)..MaxLimit

InitMerge ==
    /\ context = NullId
    /\ accessRightList = <<>>
    /\ resource = NullId
    /\ nodeType = "spacer"
    /\ info = <<>>
    /\ ownResourceAccessMap = EmptyMap
    /\ groupAccessMaps = NoGroupMaps
    /\ currentSubjectId = NullId
    /\ resourcePool = PermanentResources
    /\ lastToggle = NoToggle
    /\ jsonCall = NoJsonCall
    /\ \E sortOrder \in {"ascending", "descending"} :
        \E sortedLists \in MergeInputs(sortOrder), totalLimit \in MergeLimits,
                removeDuplicates \in BOOLEAN :
            mergeCall = [called |-> FALSE, sortedLists |-> sortedLists,
                sortOrder |-> sortOrder, totalLimit |-> totalLimit,
                removeDuplicates |-> removeDuplicates, result |-> <<>>]

\* The call of merge_sorted_lists on the drawn arguments.
mergeSortedLists ==
    /\ ~mergeCall.called
    /\ mergeCall' = [mergeCall EXCEPT
            !.called = TRUE,
            !.result = merge_sorted_lists(mergeCall.sortedLists, mergeCall.sortOrder,
                mergeCall.totalLimit, mergeCall.removeDuplicates)]
    /\ UNCHANGED <<context, accessRightList, resource, nodeType, info,
        ownResourceAccessMap, groupAccessMaps, currentSubjectId, resourcePool, lastToggle,
        jsonCall>>

NextMerge == mergeSortedLists

SpecMerge == InitMerge /\ [][NextMerge]_vars

\* Reference merge: all items of all lists in sort order.
RECURSIVE Concatenation(_)
Concatenation(lists) ==
    IF lists = <<>> THEN <<>> ELSE Head(lists) \o Concatenation(Tail(lists))

\* The number of items of a sequence that precede x or are equivalent to it.
NotAfter(s, sortOrder, x) == Cardinality({i \in 1..Len(s) : ~lessItem(sortOrder, x, s[i])})

\* The sequence holding the items of s in sort order.
InSortOrder(s, sortOrder) ==
    [k \in 1..Len(s) |->
        LET candidates == {s[i] : i \in 1..Len(s)}
        IN CHOOSE x \in candidates :
            /\ NotAfter(s, sortOrder, x) >= k
            /\ \A y \in candidates : NotAfter(s, sortOrder, y) >= k =>
                ~lessItem(sortOrder, y, x)]

\* One item of every class of equivalent items, in sort order.
Collapsed(s, sortOrder) ==
    LET distinct == {s[i] : i \in 1..Len(s)}
    IN [k \in 1..Cardinality(distinct) |->
        CHOOSE x \in distinct :
            Cardinality({y \in distinct : lessItem(sortOrder, y, x)}) = k - 1]

\* The merge of the source lists of the call, duplicates collapsed when asked.
ExpectedMerge ==
    LET all == Concatenation(mergeCall.sortedLists)
    IN IF mergeCall.removeDuplicates THEN Collapsed(all, mergeCall.sortOrder)
       ELSE InSortOrder(all, mergeCall.sortOrder)

FirstItems(s, n) == SubSeq(s, 1, IF n < Len(s) THEN n ELSE Len(s))

----------------------------------------------------------------------------
(* C17 *)

\* C17: the result of merge_sorted_lists is sorted by lessItem and is the first totalLimit
\* items (all of them when totalLimit <= 0) of the merge of all items of the source lists,
\* with equivalent items collapsed to one when removeDuplicates is set and all kept when it
\* is not; zero lists and empty lists give the items of the others.
C17_MergeResult ==
    mergeCall.called =>
        /\ SortedBy(mergeCall.result, mergeCall.sortOrder)
        /\ mergeCall.result =
            IF mergeCall.totalLimit <= 0 THEN ExpectedMerge
            ELSE FirstItems(ExpectedMerge, mergeCall.totalLimit)

\* Three lists, one empty, two sharing an item, merged on the heap with duplicates removed.
C17_Witness ==
    /\ mergeCall.called
    /\ mergeCall.removeDuplicates
    /\ mergeCall.sortedLists = <<<<1, 2>>, <<>>, <<2, 3>>>>
    /\ mergeCall.totalLimit = 0
    /\ mergeCall.result = <<1, 2, 3>>

\* Duplicates kept, descending order.
C17_WitnessKeep ==
    /\ mergeCall.called
    /\ ~mergeCall.removeDuplicates
    /\ mergeCall.sortOrder = "descending"
    /\ mergeCall.sortedLists = <<<<3, 2>>, <<2, 2>>>>
    /\ mergeCall.result = <<3, 2, 2, 2>>

\* No list at all, and one list with a repeated item.
C17_WitnessNoList ==
    /\ mergeCall.called
    /\ mergeCall.sortedLists = <<>>
    /\ mergeCall.result = <<>>

C17_WitnessOneList ==
    /\ mergeCall.called
    /\ mergeCall.removeDuplicates
    /\ mergeCall.sortedLists = <<<<2, 2>>>>
    /\ mergeCall.result = <<2>>

----------------------------------------------------------------------------
(* C18 *)

\* The call took the single-list shortcut (one list, or one non-empty list).
C18_SingleListPath ==
    /\ Len(mergeCall.sortedLists) >= 1
    /\ Len(nonEmptyLists(mergeCall.sortedLists)) = 1

\* C18: with totalLimit > 0 the result has at most totalLimit items; with totalLimit <= 0
\* nothing is dropped for the limit: every item value of the sources is in the result, and
\* every occurrence when duplicates are kept.
C18_LimitRespected ==
    mergeCall.called =>
        /\ mergeCall.totalLimit > 0 => Len(mergeCall.result) <= mergeCall.totalLimit
        /\ mergeCall.totalLimit <= 0 =>
            /\ Range(mergeCall.result) = Range(Concatenation(mergeCall.sortedLists))
            /\ ~mergeCall.removeDuplicates =>
                Len(mergeCall.result) = Len(Concatenation(mergeCall.sortedLists))

\* The limit cuts the result on the heap path.
C18_Witness ==
    /\ mergeCall.called
    /\ mergeCall.totalLimit > 0
    /\ Len(nonEmptyLists(mergeCall.sortedLists)) >= 2
    /\ Len(ExpectedMerge) > mergeCall.totalLimit
    /\ Len(mergeCall.result) = mergeCall.totalLimit

\* The limit cuts the result on the single-list path.
C18_WitnessSingleList ==
    /\ mergeCall.called
    /\ mergeCall.totalLimit > 0
    /\ C18_SingleListPath
    /\ Len(ExpectedMerge) > mergeCall.totalLimit
    /\ Len(mergeCall.result) = mergeCall.totalLimit

\* A negative limit keeps everything.
C18_WitnessNoLimit ==
    /\ mergeCall.called
    /\ mergeCall.totalLimit < 0
    /\ Len(mergeCall.result) = MaxLists * MaxListLen

----------------------------------------------------------------------------
(* C19 *)

\* The last call toggled a resource group (no resource is set).
C19_Case ==
    /\ lastToggle.applied
    /\ resource = NullId

\* The mask of the last toggle, and the rights the group held before it.
C19_Mask == toggledMask(ToggledRight, lastToggle.withDependentAccessRights, ToggleWillCheck)
C19_GroupRights == Value(PreMap, groupId(nodeType))

\* The group held the toggled right itself before the call.
C19_GroupWasChecked == ToggledRight \in C19_GroupRights

C19_WitnessOff ==
    /\ C19_Case
    /\ groupId(nodeType) = kAllDevicesGroupId
    /\ C19_GroupRights = {view}
    /\ C19_Mask = {view, viewArchive}
    /\ \A m \in Members(kAllDevicesGroupId) : Value(ownResourceAccessMap, m) = {view}

\* The group was toggled on while a camera held the right.
C19_WitnessOn ==
    /\ C19_Case
    /\ ToggleWillCheck
    /\ \E m \in Members(groupId(nodeType)) : ToggledRight \in Value(PreMap, m)

----------------------------------------------------------------------------
(* C20 *)

\* Row i shows a resource that holds the right as an own grant while its resource group
\* holds it as well.
C20_Case(i) ==
    /\ context # NullId
    /\ currentSubjectId # NullId
    /\ resource # NullId
    /\ groupId(nodeType) = NullId
    /\ specialResourceGroupFor(resource) # NullId
    /\ accessRightList[i] \in Value(ownResourceAccessMap, resource)
    /\ accessRightList[i] \in Value(ownResourceAccessMap, specialResourceGroupFor(resource))

\* C20 as stated: the row of such a resource is provided via own, the direct grant being
\* matched before the grant of the resource group.
C20_DirectGrantFirst ==
    \A i \in 1..Len(info) : C20_Case(i) => info[i].providedVia = "own"

\* C20, amended: the row of such a resource is provided via its resource group; the grant
\* of the group is matched before the direct one.
C20_GroupGrantFirst ==
    \A i \in 1..Len(info) :
        C20_Case(i) =>
            /\ info[i].providedVia = "ownResourceGroup"
            /\ resolve(ownResourceAccessMap, resource, accessRightList[i]).providedVia
                = "ownResourceGroup"

\* camA and the cameras group both hold view.
C20_Witness ==
    /\ Len(info) >= 1
    /\ C20_Case(1)
    /\ resource = camA
    /\ accessRightList[1] = view

----------------------------------------------------------------------------
(* C21 *)

\* The right on the shown resource is provided to the subject by a video wall and by a
\* layout, and by no grant on the resource or its resource group.
C21_Case(accessRight) ==
    /\ resource # NullId
    /\ C15_Providers(accessRight) \cap VideoWalls # {}
    /\ C15_Providers(accessRight) \cap Layouts # {}

----------------------------------------------------------------------------
(* C22 *)

\* The toggled item was checked before the last toggle, evaluated on the access map.
WasCurrentlyChecked == isChecked(PreMap, resource, nodeType, ToggledRight)

\* The rows the last toggle read were those of the toggled item and were up to date: no
\* resource is shown under a node type of a resource group, and the stored rows equalled,
\* in every field, the rows computed from the access map the toggle started from.
ToggleReadFreshRows ==
    /\ ~(resource # NullId /\ groupId(nodeType) # NullId)
    /\ lastToggle.info = [i \in 1..Len(accessRightList) |->
            rowInfo(context, resourcePool, resource, nodeType, PreMap, groupAccessMaps,
                accessRightList[i])]

\* C22: toggle sets the own bits of the toggled item for the mask exactly when the item was
\* not checked (own entry, or own entry of the resource's group, or every member of a
\* non-empty group holding the right), and clears them otherwise.
C22_ToggleDecision ==
    lastToggle.applied =>
        LET id == toggledId(resource, nodeType)
            mask == toggledMask(ToggledRight, lastToggle.withDependentAccessRights,
                ~WasCurrentlyChecked)
        IN IF WasCurrentlyChecked
             THEN Value(ownResourceAccessMap, id) \cap mask = {}
             ELSE mask \subseteq Value(ownResourceAccessMap, id)

\* The same for toggles that read rows of the toggled item that were up to date.
C22_ToggleDecisionOnFreshRows == ToggleReadFreshRows => C22_ToggleDecision

----------------------------------------------------------------------------
(* C23 *)

\* The mask the claim gives for the last toggle.
C23_Mask ==
    IF ~lastToggle.withDependentAccessRights THEN {ToggledRight}
    ELSE IF ToggleWillCheck THEN {ToggledRight} \cup requiredAccessRights(ToggledRight)
    ELSE {ToggledRight} \cup dependentAccessRights(ToggledRight)

\* C23: without dependents the mask of a toggle is the toggled right alone, with dependents
\* it is the right and its required rights when the item will be checked, the right and its
\* dependent rights when it will be unchecked; the toggled item ends with all bits of the
\* mask set or cleared, and in no entry of the access map a bit outside the mask changes.
C23_MaskWidening ==
    lastToggle.applied =>
        /\ Value(ownResourceAccessMap, toggledId(resource, nodeType)) \cap C23_Mask
            = IF ToggleWillCheck THEN C23_Mask ELSE {}
        /\ \A id \in Resources \cup SpecialResourceGroups :
            Value(ownResourceAccessMap, id) \ C23_Mask = Value(PreMap, id) \ C23_Mask

\* A toggle of view without dependents on an access map that holds viewArchive bits, which
\* changed some entry.
C23_Witness ==
    /\ lastToggle.applied
    /\ ~lastToggle.withDependentAccessRights
    /\ ToggledRight = view
    /\ \E id \in DOMAIN PreMap : viewArchive \in PreMap[id]
    /\ ownResourceAccessMap # PreMap

\* A checking toggle of viewArchive with dependents that also set view.
C23_WitnessRequired ==
    /\ lastToggle.applied
    /\ lastToggle.withDependentAccessRights
    /\ ToggledRight = viewArchive
    /\ ToggleWillCheck
    /\ view \notin Value(PreMap, toggledId(resource, nodeType))
    /\ view \in Value(ownResourceAccessMap, toggledId(resource, nodeType))

\* An unchecking toggle of view with dependents that also cleared viewArchive.
C23_WitnessDependent ==
    /\ lastToggle.applied
    /\ lastToggle.withDependentAccessRights
    /\ ToggledRight = view
    /\ ~ToggleWillCheck
    /\ viewArchive \in Value(PreMap, toggledId(resource, nodeType))
    /\ viewArchive \notin Value(ownResourceAccessMap, toggledId(resource, nodeType))

----------------------------------------------------------------------------
(* C24 *)

\* The node types that show a resource group.
GroupNodeTypes == {nt \in NodeTypes : groupId(nt) # NullId}

\* The members of a group whose own entry holds the right.
CheckedMembers(group, accessRight) ==
    {m \in Members(group) : accessRight \in Value(ownResourceAccessMap, m)}

\* What C24 says of the row of a resource group.
C24_GroupRow(row, group, accessRight) ==
    IF accessRight \in Value(ownResourceAccessMap, group)
      THEN /\ row.providedVia = "own"
           /\ row.checkedChildCount = 0
           /\ row.totalChildCount = 0
      ELSE /\ row.providedVia = "none"
           /\ row.totalChildCount = Cardinality(Members(group))
           /\ row.checkedChildCount = Cardinality(CheckedMembers(group, accessRight))
           /\ 0 <= row.checkedChildCount
           /\ row.checkedChildCount <= row.totalChildCount

\* C24: a resource group whose own entry holds the right resolves as own with no child
\* counts; otherwise it resolves as none, with the number of its members as total and the
\* number of members whose own entry holds the right as checked, each member counted once.
C24_GroupResolve ==
    \A nt \in GroupNodeTypes, accessRight \in AccessRight :
        C24_GroupRow(rowInfo(kContext, resourcePool, NullId, nt, ownResourceAccessMap,
            groupAccessMaps, accessRight), groupId(nt), accessRight)

\* One of the three cameras holds view, the cameras group does not.
C24_Witness ==
    /\ context # NullId
    /\ resource = NullId
    /\ nodeType = "camerasAndDevices"
    /\ Len(info) >= 1
    /\ accessRightList[1] = view
    /\ view \notin Value(ownResourceAccessMap, kAllDevicesGroupId)
    /\ Cardinality(CheckedMembers(kAllDevicesGroupId, view)) = 1
    /\ info[1].checkedChildCount = 1
    /\ info[1].totalChildCount = Cardinality(Cameras)

\* The cameras group holds view while a camera holds viewArchive.
C24_WitnessOwn ==
    /\ context # NullId
    /\ resource = NullId
    /\ nodeType = "camerasAndDevices"
    /\ Len(info) >= 1
    /\ accessRightList[1] = view
    /\ view \in Value(ownResourceAccessMap, kAllDevicesGroupId)
    /\ info[1].providedVia = "own"
    /\ \E m \in Cameras : Value(ownResourceAccessMap, m) # {}

----------------------------------------------------------------------------
(* C25 *)

\* The toggled item is checked after the last toggle, evaluated on the access map.
IsCurrentlyChecked == isChecked(ownResourceAccessMap, resource, nodeType, ToggledRight)

\* The last toggle was on a resource group that has members and held the right itself.
C25_OwnGroupWithMembers ==
    /\ resource = NullId
    /\ ToggledRight \in Value(PreMap, groupId(nodeType))
    /\ Members(groupId(nodeType)) # {}

C25_CheckedAfterToggle ==
    (lastToggle.applied /\ ~lastToggle.withDependentAccessRights)
        => /\ IsCurrentlyChecked <=> (ToggleWillCheck \/ C25_OwnGroupWithMembers)
           /\ (resource # NullId /\ WasCurrentlyChecked) => ~IsCurrentlyChecked

\* For a toggle without dependents that read up-to-date rows of the toggled item, the
\* checked state is negated, except for a resource group with members that held the right
\* itself: its grant moves to the members and the group stays checked because all its
\* members are.
C25_FlipsOnFreshRows ==
    (lastToggle.applied /\ ~lastToggle.withDependentAccessRights /\ ToggleReadFreshRows)
        => IF C25_OwnGroupWithMembers
             THEN /\ WasCurrentlyChecked
                  /\ IsCurrentlyChecked
                  /\ ToggledRight \notin Value(ownResourceAccessMap, groupId(nodeType))
                  /\ \A m \in Members(groupId(nodeType)) :
                        ToggledRight \in Value(ownResourceAccessMap, m)
             ELSE IsCurrentlyChecked <=> ~WasCurrentlyChecked

C25_WitnessAllChildren ==
    /\ lastToggle.applied
    /\ ~lastToggle.withDependentAccessRights
    /\ ToggleReadFreshRows
    /\ resource = NullId
    /\ ~C25_OwnGroupWithMembers
    /\ WasCurrentlyChecked
    /\ ~IsCurrentlyChecked

\* A camera checked through its group was toggled and is unchecked now.
C25_WitnessResource ==
    /\ lastToggle.applied
    /\ ~lastToggle.withDependentAccessRights
    /\ ToggleReadFreshRows
    /\ resource = camA
    /\ ToggledRight \in Value(PreMap, kAllDevicesGroupId)
    /\ ~IsCurrentlyChecked

----------------------------------------------------------------------------
(* C26 *)

\* The last call toggled off a resource group that held the toggled right itself.
C26_Case ==
    /\ lastToggle.applied
    /\ resource = NullId
    /\ ToggledRight \in Value(PreMap, groupId(nodeType))

\* C26: toggling off a resource group that holds the right leaves the effective rights (own
\* bits united with the group's own bits) of every member unchanged, with or without
\* dependents: each member gains exactly the bits of the mask that the group held, and the
\* group loses the bits of the mask.
C26_MembersKeepEffectiveRights ==
    C26_Case =>
        LET group == groupId(nodeType)
            held == Value(PreMap, group)
        IN /\ ~ToggleWillCheck
           /\ Value(ownResourceAccessMap, group) = held \ C19_Mask
           /\ \A m \in Members(group) :
                /\ Value(ownResourceAccessMap, m) = Value(PreMap, m) \cup (C19_Mask \cap held)
                /\ effectiveRights(ownResourceAccessMap, m) = effectiveRights(PreMap, m)

\* The cameras group held view only and was toggled off with dependents, while a camera had
\* no right of its own.
C26_Witness ==
    /\ C26_Case
    /\ lastToggle.withDependentAccessRights
    /\ groupId(nodeType) = kAllDevicesGroupId
    /\ Value(PreMap, kAllDevicesGroupId) = {view}
    /\ ToggledRight = view
    /\ \E m \in Members(kAllDevicesGroupId) : Value(PreMap, m) = {}
    /\ \E m \in Members(kAllDevicesGroupId) : Value(PreMap, m) = {viewArchive}

\* The group held both rights and was toggled off without dependents.
C26_WitnessBoth ==
    /\ C26_Case
    /\ ~lastToggle.withDependentAccessRights
    /\ Value(PreMap, groupId(nodeType)) = {view, viewArchive}
    /\ Members(groupId(nodeType)) # {}

----------------------------------------------------------------------------
(* C27 *)

\* The last call toggled a resource that has no resource group, or whose resource group did
\* not hold the toggled right.
C27_Case ==
    /\ lastToggle.applied
    /\ resource # NullId
    /\ ToggledRight \notin Value(PreMap, specialResourceGroupFor(resource))

\* C27: such a toggle changes the entry of the toggled resource only: the entry of its
\* resource group and the entries of all other resources and groups are as before.
C27_OnlyTargetEntryChanges ==
    C27_Case =>
        \A id \in (Resources \cup SpecialResourceGroups) \ {resource} :
            SameEntry(ownResourceAccessMap, PreMap, id)

\* camA was toggled while its group held the other right and another camera had an entry of
\* its own, and camA's entry changed.
C27_Witness ==
    /\ C27_Case
    /\ resource = camA
    /\ Value(PreMap, kAllDevicesGroupId) # {}
    /\ \E m \in Cameras \ {camA} : Value(PreMap, m) # {}
    /\ Value(ownResourceAccessMap, camA) # Value(PreMap, camA)

\* A layout, which has no resource group, was toggled on a non-empty access map.
C27_WitnessNoGroup ==
    /\ C27_Case
    /\ resource = layoutL
    /\ specialResourceGroupFor(resource) = NullId
    /\ PreMap # EmptyMap
    /\ Value(ownResourceAccessMap, layoutL) # Value(PreMap, layoutL)

----------------------------------------------------------------------------
(* C28 *)

\* C28: the stored rows equal the freshly resolved rows in every field, totalChildCount
\* included, and a toggle of a resource group that read 'all children were checked' from its
\* row was right about the members of the group.
C28_StoredInfoIsFresh ==
    /\ info = newResourceAccessInfoNow
    /\ (lastToggle.applied /\ resource = NullId
            /\ allChildrenWereChecked(lastToggle.info, lastToggle.index))
        => /\ Members(groupId(nodeType)) # {}
           /\ \A m \in Members(groupId(nodeType)) : ToggledRight \in Value(PreMap, m)

----------------------------------------------------------------------------
(* C29 *)

\* C29: the stored rows are those of the item that toggle mutates (the resource when one is
\* set, the resource group of the node type otherwise): provenance and checked child count
\* of every row are those resolved for that item, and a toggled resource, having no
\* children, is never read as 'all children were checked'.
C29_InfoTargetIsToggleTarget ==
    /\ (context # NullId /\ currentSubjectId # NullId) =>
        \A i \in 1..Len(info) :
            /\ info[i].providedVia
                = resolveToggled(ownResourceAccessMap, accessRightList[i]).providedVia
            /\ info[i].checkedChildCount
                = resolveToggled(ownResourceAccessMap, accessRightList[i]).checkedChildCount
    /\ (lastToggle.applied /\ resource # NullId) =>
        ~allChildrenWereChecked(lastToggle.info, lastToggle.index)

----------------------------------------------------------------------------
(* nx::vms::api::ResolutionData: serialize and deserialize of the JSON text (part_001).     *)
(* A text is a sequence of one-character strings.                                          *)

\* Bounds: the widths and heights of the serialized values and the length of the texts.
MaxDimension == 11
MaxTextLen == 3

DigitChars == <<"0", "1", "2", "3", "4", "5", "6", "7", "8", "9">>
IsDigit(c) == \E d \in 1..Len(DigitChars) : DigitChars[d] = c
DigitValue(c) == (CHOOSE d \in 1..Len(DigitChars) : DigitChars[d] = c) - 1

\* QString::number of a non-negative integer, and of any integer.
RECURSIVE numberDigits(_)
numberDigits(n) ==
    IF n < 10 THEN <<DigitChars[n + 1]>>
    ELSE Append(numberDigits(n \div 10), DigitChars[(n % 10) + 1])
number(n) == IF n < 0 THEN <<"-">> \o numberDigits(-n) ELSE numberDigits(n)

\* QSize::isValid
isValid(size) == size.width >= 0 /\ size.height >= 0

\* serialize(ResolutionData): the JSON string.
serialize(size) ==
    IF isValid(size) THEN number(size.width) \o <<"x">> \o number(size.height)
    ELSE number(size.height) \o <<"p">>

\* The position after the longest [+-]?\d+ that starts at pos, 0 when there is none.
scanNumber(str, pos) ==
    LET first == IF pos <= Len(str) /\ str[pos] \in {"+", "-"} THEN pos + 1 ELSE pos
        stops == {k \in first..Len(str) : ~IsDigit(str[k])}
        end == IF stops = {} THEN Len(str) + 1 ELSE Min(stops)
    IN IF end > first THEN end ELSE 0

\* std::regex_search with ^([+-]?\d+)([px])([+-]?\d+)?$: whether the text matches, and the
\* sub-matches of the three groups; a group that did not take part is an empty sub-match.
regex_search(str) ==
    LET end1 == scanNumber(str, 1)
        end3 == IF end1 = 0 THEN 0 ELSE scanNumber(str, end1 + 1)
        noMatch == [matched |-> FALSE, groups |-> <<>>]
    IN IF end1 = 0 \/ end1 > Len(str) THEN noMatch
       ELSE IF str[end1] \notin {"p", "x"} THEN noMatch
       ELSE IF end1 = Len(str)
         THEN [matched |-> TRUE,
               groups |-> <<SubSeq(str, 1, end1 - 1), <<str[end1]>>, <<>> >>]
       ELSE IF end3 = Len(str) + 1
         THEN [matched |-> TRUE,
               groups |-> <<SubSeq(str, 1, end1 - 1), <<str[end1]>>,
                    SubSeq(str, end1 + 1, Len(str))>>]
       ELSE noMatch

\* std::smatch::size(): the number of marked groups plus one for the whole match.
matchSize(match) == Len(match.groups) + 1

\* std::stoi: the value, or an exception (no digits, or a value outside int).
RECURSIVE digitsValue(_)
digitsValue(s) ==
    IF s = <<>> THEN 0 ELSE digitsValue(SubSeq(s, 1, Len(s) - 1)) * 10 + DigitValue(s[Len(s)])
stoi(s) ==
    LET signed == s # <<>> /\ s[1] \in {"+", "-"}
        digits == IF signed THEN Tail(s) ELSE s
        value == IF signed /\ s[1] = "-" THEN 0 - digitsValue(digits) ELSE digitsValue(digits)
    IN IF digits = <<>> \/ value > kIntMax \/ value < (0 - kIntMax) - 1
         THEN [thrown |-> TRUE, value |-> 0]
         ELSE [thrown |-> FALSE, value |-> value]

\* deserialize(ResolutionData) of a JSON string: the returned flag and the target after the
\* call.
deserialize(str, target) ==
    LET match == regex_search(str)
        failed == [result |-> FALSE, target |-> target]
    IN IF ~match.matched THEN failed
       ELSE IF matchSize(match) < 3 THEN failed
       ELSE IF matchSize(match) < 4
         THEN IF match.groups[2] # <<"p">> THEN failed
              ELSE IF stoi(match.groups[1]).thrown THEN failed
              ELSE [result |-> TRUE,
                    target |-> [target EXCEPT !.height = stoi(match.groups[1]).value]]
       ELSE IF match.groups[2] # <<"x">> THEN failed
       ELSE IF stoi(match.groups[1]).thrown THEN failed
       ELSE IF stoi(match.groups[3]).thrown
         THEN [result |-> FALSE,
               target |-> [target EXCEPT !.width = stoi(match.groups[1]).value]]
       ELSE [result |-> TRUE,
             target |-> [width |-> stoi(match.groups[1]).value,
                         height |-> stoi(match.groups[3]).value]]

\* The drawn values, texts and targets.
Dimensions == (-1)..MaxDimension
TextChars == {"-", "0", "1", "p", "x", "a"}
Texts == UNION {[1..n -> TextChars] : n \in 0..MaxTextLen}
InitialTargets == {DefaultSize, [width |-> 3, height |-> 4]}

InitJson ==
    /\ context = NullId
    /\ accessRightList = <<>>
    /\ resource = NullId
    /\ nodeType = "spacer"
    /\ info = <<>>
    /\ ownResourceAccessMap = EmptyMap
    /\ groupAccessMaps = NoGroupMaps
    /\ currentSubjectId = NullId
    /\ resourcePool = PermanentResources
    /\ lastToggle = NoToggle
    /\ mergeCall = NoMergeCall
    /\ \E width \in Dimensions, height \in Dimensions, text \in Texts,
            initial \in InitialTargets :
        jsonCall = [serialized |-> FALSE, called |-> FALSE,
            size |-> [width |-> width, height |-> height], text |-> text,
            result |-> FALSE, initial |-> initial, target |-> initial]

\* serialize of the drawn value: its text replaces the drawn one.
serializeValue ==
    /\ ~jsonCall.serialized
    /\ ~jsonCall.called
    /\ jsonCall' = [jsonCall EXCEPT !.serialized = TRUE, !.text = serialize(jsonCall.size)]
    /\ UNCHANGED <<context, accessRightList, resource, nodeType, info,
        ownResourceAccessMap, groupAccessMaps, currentSubjectId, resourcePool, lastToggle,
        mergeCall>>

\* deserialize of the text into the target.
deserializeText ==
    /\ ~jsonCall.called
    /\ jsonCall' = [jsonCall EXCEPT
            !.called = TRUE,
            !.result = deserialize(jsonCall.text, jsonCall.initial).result,
            !.target = deserialize(jsonCall.text, jsonCall.initial).target]
    /\ UNCHANGED <<context, accessRightList, resource, nodeType, info,
        ownResourceAccessMap, groupAccessMaps, currentSubjectId, resourcePool, lastToggle,
        mergeCall>>

NextJson == serializeValue \/ deserializeText

SpecJson == InitJson /\ [][NextJson]_vars

\* A text is an optionally signed decimal number.
IsNumberText(s) ==
    /\ s # <<>>
    /\ LET digits == IF s[1] \in {"+", "-"} THEN Tail(s) ELSE s
       IN digits # <<>> /\ \A k \in 1..Len(digits) : IsDigit(digits[k])

\* The two forms of the text: '<height>p' and '<width>x<height>'.
IsPForm(s) == Len(s) >= 2 /\ s[Len(s)] = "p" /\ IsNumberText(SubSeq(s, 1, Len(s) - 1))
IsXForm(s) ==
    \E k \in 1..Len(s) :
        /\ s[k] = "x"
        /\ IsNumberText(SubSeq(s, 1, k - 1))
        /\ IsNumberText(SubSeq(s, k + 1, Len(s)))
XSeparator(s) == CHOOSE k \in 1..Len(s) : s[k] = "x"

----------------------------------------------------------------------------
(* C30 *)

\* serialize emits '<width>x<height>' for a valid size and '<height>p' otherwise.
C30_SerializedForm ==
    jsonCall.serialized =>
        IF isValid(jsonCall.size)
          THEN jsonCall.text
                = number(jsonCall.size.width) \o <<"x">> \o number(jsonCall.size.height)
          ELSE jsonCall.text = number(jsonCall.size.height) \o <<"p">>

\* deserialize of a serialized value returns true and reproduces the serialized fields.
C30_SerializedIsRead ==
    (jsonCall.serialized /\ jsonCall.called) =>
        /\ jsonCall.result
        /\ jsonCall.target.height = jsonCall.size.height
        /\ jsonCall.target.width =
            IF isValid(jsonCall.size) THEN jsonCall.size.width ELSE jsonCall.initial.width

\* deserialize accepts the 'x' form, setting width and height.
C30_XFormAccepted ==
    (jsonCall.called /\ IsXForm(jsonCall.text)) =>
        /\ jsonCall.result
        /\ jsonCall.target.width
            = stoi(SubSeq(jsonCall.text, 1, XSeparator(jsonCall.text) - 1)).value
        /\ jsonCall.target.height
            = stoi(SubSeq(jsonCall.text, XSeparator(jsonCall.text) + 1,
                Len(jsonCall.text))).value

\* deserialize accepts the 'p' form, setting the height only.
C30_PFormAccepted ==
    (jsonCall.called /\ IsPForm(jsonCall.text)) =>
        /\ jsonCall.result
        /\ jsonCall.target.height
            = stoi(SubSeq(jsonCall.text, 1, Len(jsonCall.text) - 1)).value
        /\ jsonCall.target.width = jsonCall.initial.width

\* deserialize returns false for any other text.
C30_OthersRejected ==
    (jsonCall.called /\ ~IsXForm(jsonCall.text) /\ ~IsPForm(jsonCall.text)) =>
        ~jsonCall.result

\* C30: serialize emits '<width>x<height>' for a valid size and '<height>p' otherwise;
\* deserialize of the serialized text returns true and reproduces the serialized fields;
\* deserialize accepts both forms, setting width and height for the 'x' form and only the
\* height for the 'p' form, and returns false for any other text.
C30_JsonRoundTrip ==
    /\ C30_SerializedForm
    /\ C30_SerializedIsRead
    /\ C30_XFormAccepted
    /\ C30_PFormAccepted
    /\ C30_OthersRejected

====
